---- MODULE Spec2Model ----
(***************************************************************************)
(* Model of projectq/backends/_aqt/_aqt_http_client.py: the AQT session    *)
(* (catalog, token), the entry points send, retrieve, show_devices and a   *)
(* direct call of AQT.get_result, the remote server as a nondeterministic  *)
(* responder, and the SIGINT handler of the process.                       *)
(*                                                                         *)
(* Python values are modelled as follows.  A dict is a function whose      *)
(* DOMAIN is its set of keys, so "k in d" is k \in DOMAIN d and d[k] on a  *)
(* missing key is a KeyError.  An exception is a record [type, text, arg]. *)
(* None (as a token) is the string "None".  A signal handler is a record   *)
(* whose field fn names the function; the closure installed by get_result  *)
(* also carries the execution id it captured.                              *)
(*                                                                         *)
(* The verbose flag only adds printing and is not modelled.  A SIGINT is   *)
(* delivered between two statements of send, retrieve, show_devices, run   *)
(* and get_result and inside their blocking calls (the prompt of getpass,  *)
(* the requests, the sleep); the body of update_devices_list is one step.  *)
(* What the SIGINT raises depends on the handler in effect: the closure of *)
(* get_result raises the generic error, default_int_handler raises         *)
(* KeyboardInterrupt, no handler (None) raises nothing and the call goes   *)
(* on, and a handler of the caller returns or raises as it chooses.        *)
(***************************************************************************)
EXTENDS Integers, Sequences, FiniteSets, TLC

VARIABLES
    entry,                   \* which operation the caller invoked
    pc,                      \* position of the control flow
    device,                  \* argument device
    info,                    \* argument info (send)
    argToken,                \* argument token
    num_retries,             \* argument num_retries
    token,                   \* self.token
    backends,                \* self.backends
    handler,                 \* the SIGINT handler of the process
    handlerAtCall,           \* the SIGINT handler when the operation was called
    original_sigint_handler, \* local of get_result
    execution_id,            \* execution id polled by get_result
    retries,                 \* loop variable of get_result
    r_json,                  \* the last decoded response body
    sent,                    \* the requests issued so far, in order
    answers,                 \* the answers received so far: answers[i] answers sent[i]
    sleeps,                  \* number of completed time.sleep calls
    refreshes,               \* values of retries at which the loop refreshed the catalog
    interrupted,             \* a SIGINT was delivered during the poll loop
    raised,                  \* the exception with which the body of the operation ended, if any
    leaving,                 \* the outcome in flight with which the current frame is being left
    grResult,                \* how the get_result call ended
    result,                  \* how the operation ended for its caller
    printed,                 \* what send has printed: its messages and its error reports
    steps,                   \* the calls made by the operation so far, in order
    capacity                 \* runnable, qmax, qneeded of send

vars == <<entry, pc, device, info, argToken, num_retries, token, backends, handler,
          handlerAtCall, original_sigint_handler, execution_id, retries, r_json,
          sent, answers, sleeps, refreshes, interrupted, raised, grResult, result, printed,
          steps, capacity, leaving>>

-----------------------------------------------------------------------------
\* Bounds of the model.

\* num_retries is drawn from 0..MaxShortRetries and one long run that passes
\* the second liveness re-check.
MaxShortRetries == 2

\* retries % 60 == 0
RecheckPeriod == 60

LongRetries == RecheckPeriod + MaxShortRetries

RetryChoices == (0 .. MaxShortRetries) \cup {LongRetries}

\* job sizes around the two capacities of the catalog (4 and 11)
NqChoices == {4, 5, 11, 12}

\* "custom_device" is in no refreshed catalog; a caller can add it to
\* session.backends by hand
DeviceArgs == {"aqt_simulator", "aqt_simulator_noise", "aqt_device", "custom_device"}

TokenArgs == {"None", "tok_a"}

\* the long run is made with the smallest job and with a token given by the
\* caller; the short runs take every job size and both ways to supply the token
LongRunToken == "tok_a"

PromptedToken == "tok_prompt"

JobIds == {"id_a", "id_b"}

Statuses == {"queued", "running", "finished", "error"}

SampleLists == {<<1>>, <<0, 3>>}

HandlersAtCall == {[fn |-> "None"], [fn |-> "default_int_handler"], [fn |-> "user_handler"]}

-----------------------------------------------------------------------------
\* Values.

_API_URL == "https://gateway.aqt.eu/marmot/"

urljoin(base, path) == <<base, path>>

EmptyDict == [k \in {} |-> 0]

NoException == [type |-> "none", text |-> "", arg |-> ""]

Exc(type, text, arg) == [type |-> type, text |-> text, arg |-> arg]

Pending == [kind |-> "pending"]

Returned(v) == [kind |-> "returned", value |-> v]

ReturnedNone == [kind |-> "returnedNone"]

Raised(e) == [kind |-> "raised", exc |-> e]

Continue == [kind |-> "continue"]

\* a local that has not been assigned
Unset == [runnable |-> FALSE, qmax |-> -1, qneeded |-> -1]

\* class hierarchy of the exceptions: requests.exceptions.HTTPError derives
\* from RequestException; the three backend errors derive from Exception
BackendErrors == {"DeviceOfflineError", "DeviceTooSmall", "RequestTimeoutError"}

BackendErrorBases(type) == {type, "Exception"}

ExcBases(type) ==
    CASE type = "HTTPError" -> {"HTTPError", "RequestException", "Exception"}
      [] type = "RequestException" -> {"RequestException", "Exception"}
      [] type = "KeyError" -> {"KeyError", "Exception"}
      [] type = "KeyboardInterrupt" -> {"KeyboardInterrupt"}
      [] type = "RuntimeError" -> {"RuntimeError", "Exception"}
      [] type \in BackendErrors -> BackendErrorBases(type)
      [] OTHER -> {"Exception"}

isinstance(e, cls) == cls \in ExcBases(e.type)

-----------------------------------------------------------------------------
\* The session (class AQT).

update_devices_list ==
    ("aqt_simulator" :> [nq |-> 11, version |-> "0.0.1", url |-> "sim/"])
    @@ ("aqt_simulator_noise" :> [nq |-> 11, version |-> "0.0.1", url |-> "sim/noise-model-1"])
    @@ ("aqt_device" :> [nq |-> 4, version |-> "0.0.1", url |-> "lint/"])

\* the catalog after update_devices_list, prior being the one before: it is
\* emptied first and the three entries are then assigned
\* a refresh that adds the three entries without resetting the dictionary
RefreshedCatalog_Merge(prior) == update_devices_list @@ prior

\* a refresh after which one device has left the catalog
RefreshedCatalog_DropsDevice(prior) ==
    [d \in DOMAIN update_devices_list \ {"aqt_device"} |-> update_devices_list[d]]

RefreshedCatalog(prior) == update_devices_list

\* an online test that accepts every name
is_online_Always(b, d) == TRUE

is_online(b, d) == d \in DOMAIN b

\* the comparison off by one
can_run_experiment_OffByOne(b, i, d) ==
    [runnable |-> i.nq <= b[d].nq + 1, qmax |-> b[d].nq, qneeded |-> i.nq]

\* a comparison that rejects a job of exactly the device's size
can_run_experiment_Strict(b, i, d) ==
    [runnable |-> i.nq < b[d].nq, qmax |-> b[d].nq, qneeded |-> i.nq]

can_run_experiment(b, i, d) ==
    [runnable |-> i.nq <= b[d].nq, qmax |-> b[d].nq, qneeded |-> i.nq]

authenticate(t) == IF t = "None" THEN PromptedToken ELSE t

\* the request built by run
SubmitRequest(b, tok, i, d) ==
    [url |-> urljoin(_API_URL, b[d].url),
     data |-> [data |-> i.circuit, access_token |-> tok,
               repetitions |-> i.shots, no_qubits |-> i.nq]]

\* run without the test of the status
RunStep_NoStatusCheck(resp) ==
    IF resp.error = "request" THEN Raised(Exc("RequestException", "request failed", ""))
    ELSE IF resp.error = "http" THEN Raised(Exc("HTTPError", "bad status code", ""))
    ELSE IF "id" \notin DOMAIN resp.json THEN Raised(Exc("KeyError", "key", "id"))
    ELSE Returned(resp.json.id)

\* what run does with the server's answer
RunStep(resp) ==
    IF resp.error = "request" THEN Raised(Exc("RequestException", "request failed", ""))
    ELSE IF resp.error = "http" THEN Raised(Exc("HTTPError", "bad status code", ""))
    ELSE IF "status" \notin DOMAIN resp.json THEN Raised(Exc("KeyError", "key", "status"))
    ELSE IF resp.json.status # "queued"
        THEN Raised(Exc("Exception", "Error in sending the code online", ""))
    ELSE IF "id" \notin DOMAIN resp.json THEN Raised(Exc("KeyError", "key", "id"))
    ELSE Returned(resp.json.id)

\* a status request that carries no token
PollRequestOf_NoToken(b, tok, d, id) ==
    [url |-> urljoin(_API_URL, b[d].url),
     data |-> [id |-> id, access_token |-> "None"]]

\* a status request sent to the base url
PollRequestOf_BaseUrl(b, tok, d, id) ==
    [url |-> urljoin(_API_URL, ""),
     data |-> [id |-> id, access_token |-> tok]]

\* the request built by one iteration of get_result
PollRequestOf(b, tok, d, id) ==
    [url |-> urljoin(_API_URL, b[d].url),
     data |-> [id |-> id, access_token |-> tok]]

\* an iteration that fails on status "error" only and keeps polling otherwise
PollStep_OnlyErrorFails(resp) ==
    IF resp.error = "request" THEN Raised(Exc("RequestException", "request failed", ""))
    ELSE IF resp.error = "http" THEN Raised(Exc("HTTPError", "bad status code", ""))
    ELSE IF "status" \notin DOMAIN resp.json THEN Raised(Exc("KeyError", "key", "status"))
    ELSE IF resp.json.status = "finished" \/ "samples" \in DOMAIN resp.json
        THEN IF "samples" \in DOMAIN resp.json
                THEN Returned(resp.json.samples)
                ELSE Raised(Exc("KeyError", "key", "samples"))
    ELSE IF resp.json.status = "error"
        THEN Raised(Exc("Exception", "Error while running the code", resp.json.status))
    ELSE Continue

\* an iteration that succeeds on status "finished" only
PollStep_FinishedOnly(resp) ==
    IF resp.error = "request" THEN Raised(Exc("RequestException", "request failed", ""))
    ELSE IF resp.error = "http" THEN Raised(Exc("HTTPError", "bad status code", ""))
    ELSE IF "status" \notin DOMAIN resp.json THEN Raised(Exc("KeyError", "key", "status"))
    ELSE IF resp.json.status = "finished"
        THEN IF "samples" \in DOMAIN resp.json
                THEN Returned(resp.json.samples)
                ELSE Raised(Exc("KeyError", "key", "samples"))
    ELSE IF resp.json.status # "running"
        THEN Raised(Exc("Exception", "Error while running the code", resp.json.status))
    ELSE Continue

\* an iteration that tries again after a bad status code
PollStep_RetryOnHttpError(resp) ==
    IF resp.error = "request" THEN Raised(Exc("RequestException", "request failed", ""))
    ELSE IF resp.error = "http" THEN Continue
    ELSE IF "status" \notin DOMAIN resp.json THEN Raised(Exc("KeyError", "key", "status"))
    ELSE IF resp.json.status = "finished" \/ "samples" \in DOMAIN resp.json
        THEN IF "samples" \in DOMAIN resp.json
                THEN Returned(resp.json.samples)
                ELSE Raised(Exc("KeyError", "key", "samples"))
    ELSE IF resp.json.status # "running"
        THEN Raised(Exc("Exception", "Error while running the code", resp.json.status))
    ELSE Continue

\* what one iteration of get_result does with the server's answer
PollStep(resp) ==
    IF resp.error = "request" THEN Raised(Exc("RequestException", "request failed", ""))
    ELSE IF resp.error = "http" THEN Raised(Exc("HTTPError", "bad status code", ""))
    ELSE IF "status" \notin DOMAIN resp.json THEN Raised(Exc("KeyError", "key", "status"))
    ELSE IF resp.json.status = "finished" \/ "samples" \in DOMAIN resp.json
        THEN IF "samples" \in DOMAIN resp.json
                THEN Returned(resp.json.samples)
                ELSE Raised(Exc("KeyError", "key", "samples"))
    ELSE IF resp.json.status # "running"
        THEN Raised(Exc("Exception", "Error while running the code", resp.json.status))
    ELSE Continue

\* the re-check on every 60th attempt, counted from one
RecheckDue_Every60th(b, d, r) == is_online(b, d) /\ (r + 1) % RecheckPeriod = 0

\* a loop without the re-check
RecheckDue_Never(b, d, r) == FALSE

\* retries % 60 == 0 and the device is in the catalog
RecheckDue(b, d, r) == is_online(b, d) /\ r % RecheckPeriod = 0

\* the closure get_result installs for SIGINT
_handle_sigint_during_get_result(id) ==
    [fn |-> "_handle_sigint_during_get_result", execution_id |-> id]

\* the handler is not installed
InstalledHandler_NotInstalled(cur, id) == cur

\* signal.signal(signal.SIGINT, ...) in the try block: the handler in effect
\* after it, cur being the one in effect before
InstalledHandler(cur, id) == _handle_sigint_during_get_result(id)

\* one iteration too many
LoopContinues_OffByOne(r, n) == r <= n

\* for retries in range(num_retries): there is a next iteration
LoopContinues(r, n) == r < n

\* what a handler written by the caller may do: return, or raise
UserHandlerRaises == {NoException, Exc("RuntimeError", "user_handler ran", "")}

\* what the delivery of a SIGINT can raise under handler h (NoException: the
\* interrupted call goes on)
SigintRaises(h) ==
    CASE h.fn = "_handle_sigint_during_get_result"
            -> {Exc("Exception", "Interrupted. The ID of your submitted job is", h.execution_id)}
      [] h.fn = "default_int_handler" -> {Exc("KeyboardInterrupt", "", "")}
      [] h.fn = "None" -> {NoException}
      [] OTHER -> UserHandlerRaises

\* the finally block of get_result: the handler in effect after it
FinallyHandler(orig, cur) == IF orig # [fn |-> "None"] THEN orig ELSE cur

\* send without the except KeyError clause
send_catches_NoKeyError(e) ==
    isinstance(e, "HTTPError") \/ isinstance(e, "RequestException")

\* send with a catch-all except clause
send_catches_All(e) == isinstance(e, "Exception")

\* the three except clauses of send
send_catches(e) ==
    isinstance(e, "HTTPError") \/ isinstance(e, "RequestException") \/ isinstance(e, "KeyError")

send_report(e) ==
    IF isinstance(e, "HTTPError") THEN "- There was an error running your code:"
    ELSE IF isinstance(e, "RequestException") THEN "- Looks like something is wrong with server:"
    ELSE "- Failed to parse response:"

\* how an outcome o of the body reaches the caller of operation en
CallerSees(en, o) ==
    IF en = "send" /\ o.kind = "raised" /\ send_catches(o.exc) THEN ReturnedNone ELSE o

PrintedAfter(en, o, p) ==
    IF en = "send" /\ o.kind = "raised" /\ send_catches(o.exc)
        THEN Append(p, send_report(o.exc))
        ELSE p

-----------------------------------------------------------------------------
\* The server.

ErrorResponses == {[error |-> "request", json |-> EmptyDict],
                   [error |-> "http", json |-> EmptyDict]}

SubmitJsons ==
    {EmptyDict}
    \cup {[status |-> s] : s \in {"queued", "error"}}
    \cup {[id |-> i] : i \in JobIds}
    \cup {[status |-> s, id |-> i] : s \in {"queued", "error"}, i \in JobIds}

PollJsons ==
    {EmptyDict}
    \cup {[status |-> s] : s \in Statuses}
    \cup {[samples |-> x] : x \in SampleLists}
    \cup {[status |-> s, samples |-> x] : s \in Statuses, x \in SampleLists}

SubmitResponses == ErrorResponses \cup {[error |-> "none", json |-> j] : j \in SubmitJsons}

PollResponses == ErrorResponses \cup {[error |-> "none", json |-> j] : j \in PollJsons}

-----------------------------------------------------------------------------
\* Sessions a direct caller of get_result can hold: fresh from __init__, or
\* authenticated and refreshed.

DirectSessions ==
    {[token |-> "None", backends |-> EmptyDict],
     [token |-> "tok_a", backends |-> update_devices_list]}

\* backends is a public attribute: the caller of get_result added an entry to
\* the refreshed catalog by hand (no method of the session adds one)
CustomCatalog ==
    update_devices_list @@ ("custom_device" :> [nq |-> 4, version |-> "0.0.1", url |-> "custom/"])

HandEditedSessions == DirectSessions \cup {[token |-> "tok_a", backends |-> CustomCatalog]}

DefaultInfo == [circuit |-> "circuit", shots |-> 1, nq |-> 4]

\* the state at the call of the operation; a direct caller of get_result holds
\* one of the given sessions
InitWith(sessions) ==
    /\ entry \in {"send", "retrieve", "get_result", "show_devices"}
    /\ device \in DeviceArgs
    /\ num_retries \in RetryChoices
    /\ handlerAtCall \in HandlersAtCall
    /\ handler = handlerAtCall
    /\ \/ /\ entry = "send"
          /\ info \in {[circuit |-> "circuit", shots |-> 1, nq |-> n] : n \in NqChoices}
          /\ num_retries = LongRetries => info = DefaultInfo /\ argToken = LongRunToken
          /\ argToken \in TokenArgs
          /\ token = "None" /\ backends = EmptyDict
          /\ execution_id = "None"
          /\ pc = "new_session"
       \/ /\ entry = "retrieve"
          /\ info = DefaultInfo
          /\ argToken \in TokenArgs
          /\ token = "None" /\ backends = EmptyDict
          /\ execution_id \in JobIds
          /\ num_retries = LongRetries => argToken = LongRunToken
          /\ pc = "new_session"
       \/ /\ entry = "show_devices"
          /\ info = DefaultInfo
          /\ argToken = "None"
          /\ token = "None" /\ backends = EmptyDict
          /\ execution_id = "None"
          /\ pc = "new_session"
       \/ /\ entry = "get_result"
          /\ info = DefaultInfo
          /\ argToken = "None"
          /\ \E s \in sessions : token = s.token /\ backends = s.backends
          /\ execution_id = "id_a"
          /\ pc = "get_result"
    /\ original_sigint_handler = [fn |-> "unset"]
    /\ retries = 0
    /\ r_json = EmptyDict
    /\ sent = <<>>
    /\ answers = <<>>
    /\ sleeps = 0
    /\ refreshes = <<>>
    /\ interrupted = FALSE
    /\ raised = NoException
    /\ leaving = Pending
    /\ grResult = Pending
    /\ result = Pending
    /\ printed = <<>>
    /\ steps = <<>>
    /\ capacity = Unset

Init == InitWith(DirectSessions)

InitHandEdited == InitWith(HandEditedSessions)

-----------------------------------------------------------------------------
\* Leaving a frame.

\* str(err) as print(err) shows it: the message, and for a KeyError the repr of
\* the missing key
str(e) == IF e.type = "KeyError" THEN "'" \o e.arg \o "'" ELSE e.text

\* the body of send, retrieve or show_devices is about to be left with outcome
\* o: a value on its way to the return, or an exception on its way to the except
\* clauses of send or to the caller
Finish(o) ==
    /\ leaving' = o
    /\ pc' = "leave"

\* the try block of get_result ends with outcome o: control enters the finally block
ExitGetResult(o) ==
    /\ leaving' = o
    /\ pc' = "finally"

\* get_result is left with outcome o, which reaches the frame that called it
LeaveGetResult(o) ==
    /\ grResult' = o
    /\ leaving' = o
    /\ IF entry = "get_result"
        THEN /\ pc' = "done"
             /\ result' = o
             /\ raised' = IF o.kind = "raised" THEN o.exc ELSE raised
        ELSE /\ pc' = "leave"
             /\ UNCHANGED <<result, raised>>

-----------------------------------------------------------------------------
\* send, retrieve and show_devices.

\* AQT() and, in send, the print of the token that was given
NewSession ==
    /\ pc = "new_session"
    /\ backends' = EmptyDict
    /\ token' = "None"
    /\ printed' = IF entry = "send" /\ argToken # "None"
                    THEN Append(printed, "user API token: " \o argToken)
                    ELSE printed
    /\ pc' = IF entry = "show_devices" THEN "update_devices_list" ELSE "authenticate"
    /\ UNCHANGED <<entry, device, info, argToken, num_retries, handler, handlerAtCall,
                   original_sigint_handler, execution_id, retries, r_json, sent, answers,
                   sleeps, refreshes, interrupted, raised, leaving, grResult, result, steps,
                   capacity>>

\* the call of authenticate, up to the prompt when no token is given and up to
\* the update of the session headers when one is
Authenticate ==
    /\ pc = "authenticate"
    /\ pc' = IF argToken = "None" THEN "getpass" ELSE "store_token"
    /\ steps' = Append(steps, "authenticate")
    /\ UNCHANGED <<entry, device, info, argToken, num_retries, token, backends, handler,
                   handlerAtCall, original_sigint_handler, execution_id, retries, r_json, sent,
                   answers, sleeps, refreshes, interrupted, raised, leaving, grResult, result,
                   printed, capacity>>

\* the user answers the prompt of getpass.getpass; the session headers are
\* updated next
GetpassReturns ==
    /\ pc = "getpass"
    /\ pc' = "store_token"
    /\ UNCHANGED <<entry, device, info, argToken, num_retries, token, backends, handler,
                   handlerAtCall, original_sigint_handler, execution_id, retries, r_json, sent,
                   answers, sleeps, refreshes, interrupted, raised, leaving, grResult, result,
                   printed, steps, capacity>>

\* self.token = token, after the update of the session headers
StoreToken ==
    /\ pc = "store_token"
    /\ token' = authenticate(argToken)
    /\ pc' = "update_devices_list"
    /\ UNCHANGED <<entry, device, info, argToken, num_retries, backends, handler,
                   handlerAtCall, original_sigint_handler, execution_id, retries, r_json, sent,
                   answers, sleeps, refreshes, interrupted, raised, leaving, grResult, result,
                   printed, steps, capacity>>

\* update_devices_list; in show_devices the catalog is then on its way to the return
UpdateDevicesList ==
    /\ pc = "update_devices_list"
    /\ backends' = RefreshedCatalog(backends)
    /\ IF entry = "show_devices"
        THEN Finish(Returned(backends'))
        ELSE /\ pc' = IF entry = "send" THEN "is_online" ELSE "get_result"
             /\ UNCHANGED leaving
    /\ steps' = Append(steps, "update_devices_list")
    /\ UNCHANGED <<entry, device, info, argToken, num_retries, token, handler, handlerAtCall,
                   original_sigint_handler, execution_id, retries, r_json, sent, answers,
                   sleeps, refreshes, interrupted, raised, grResult, result, printed, capacity>>

\* the online test of send
CheckOnline ==
    /\ pc = "is_online"
    /\ pc' = IF is_online(backends, device) THEN "can_run_experiment" ELSE "offline_print"
    /\ steps' = Append(steps, "is_online")
    /\ UNCHANGED <<entry, device, info, argToken, num_retries, token, backends, handler,
                   handlerAtCall, original_sigint_handler, execution_id, retries, r_json, sent,
                   answers, sleeps, refreshes, interrupted, raised, leaving, grResult, result,
                   printed, capacity>>

PrintOffline ==
    /\ pc = "offline_print"
    /\ printed' = Append(printed, "The device is offline")
    /\ pc' = "offline_raise"
    /\ UNCHANGED <<entry, device, info, argToken, num_retries, token, backends, handler,
                   handlerAtCall, original_sigint_handler, execution_id, retries, r_json, sent,
                   answers, sleeps, refreshes, interrupted, raised, leaving, grResult, result,
                   steps, capacity>>

RaiseOffline ==
    /\ pc = "offline_raise"
    /\ Finish(Raised(Exc("DeviceOfflineError", "Device is offline.", "")))
    /\ UNCHANGED <<entry, device, info, argToken, num_retries, token, backends, handler,
                   handlerAtCall, original_sigint_handler, execution_id, retries, r_json, sent,
                   answers, sleeps, refreshes, interrupted, raised, grResult, result, printed,
                   steps, capacity>>

\* the capacity check without its raise
CheckCapacity_NoRaise ==
    /\ pc = "can_run_experiment"
    /\ pc' = "run"
    /\ steps' = Append(steps, "can_run_experiment")
    /\ capacity' = can_run_experiment(backends, info, device)
    /\ UNCHANGED <<entry, device, info, argToken, num_retries, token, backends, handler,
                   handlerAtCall, original_sigint_handler, execution_id, retries, r_json, sent,
                   answers, sleeps, refreshes, interrupted, raised, leaving, grResult, result,
                   printed>>

\* the capacity check of send
CheckCapacity ==
    /\ pc = "can_run_experiment"
    /\ pc' = IF can_run_experiment(backends, info, device).runnable
                THEN "run" ELSE "too_small_print"
    /\ steps' = Append(steps, "can_run_experiment")
    /\ capacity' = can_run_experiment(backends, info, device)
    /\ UNCHANGED <<entry, device, info, argToken, num_retries, token, backends, handler,
                   handlerAtCall, original_sigint_handler, execution_id, retries, r_json, sent,
                   answers, sleeps, refreshes, interrupted, raised, leaving, grResult, result,
                   printed>>

PrintTooSmall ==
    /\ pc = "too_small_print"
    /\ printed' = Append(printed, "The device is too small")
    /\ pc' = "too_small_raise"
    /\ UNCHANGED <<entry, device, info, argToken, num_retries, token, backends, handler,
                   handlerAtCall, original_sigint_handler, execution_id, retries, r_json, sent,
                   answers, sleeps, refreshes, interrupted, raised, leaving, grResult, result,
                   steps, capacity>>

RaiseTooSmall ==
    /\ pc = "too_small_raise"
    /\ Finish(Raised(Exc("DeviceTooSmall", "Device is too small.", "")))
    /\ UNCHANGED <<entry, device, info, argToken, num_retries, token, backends, handler,
                   handlerAtCall, original_sigint_handler, execution_id, retries, r_json, sent,
                   answers, sleeps, refreshes, interrupted, raised, grResult, result, printed,
                   steps, capacity>>

\* send calls run
Run ==
    /\ pc = "run"
    /\ pc' = "run_put"
    /\ steps' = Append(steps, "run")
    /\ UNCHANGED <<entry, device, info, argToken, num_retries, token, backends, handler,
                   handlerAtCall, original_sigint_handler, execution_id, retries, r_json, sent,
                   answers, sleeps, refreshes, interrupted, raised, leaving, grResult, result,
                   printed, capacity>>

\* run builds its request and enters the blocking put
RunPut ==
    /\ pc = "run_put"
    /\ sent' = Append(sent, SubmitRequest(backends, token, info, device))
    /\ pc' = "run_wait"
    /\ UNCHANGED <<entry, device, info, argToken, num_retries, token, backends, handler,
                   handlerAtCall, original_sigint_handler, execution_id, retries, r_json,
                   answers, sleeps, refreshes, interrupted, raised, leaving, grResult, result,
                   printed, steps, capacity>>

\* the put of run returns with the answer of the server
RunResponse ==
    /\ pc = "run_wait"
    /\ \E resp \in SubmitResponses : answers' = Append(answers, resp)
    /\ pc' = "run_decode"
    /\ UNCHANGED <<entry, device, info, argToken, num_retries, token, backends, handler,
                   handlerAtCall, original_sigint_handler, execution_id, retries, r_json, sent,
                   sleeps, refreshes, interrupted, raised, leaving, grResult, result, printed,
                   steps, capacity>>

\* raise_for_status and req.json() of run
RunDecode ==
    /\ pc = "run_decode"
    /\ LET resp == answers[Len(answers)]
       IN  IF resp.error = "none"
            THEN /\ r_json' = resp.json
                 /\ pc' = "run_check"
                 /\ UNCHANGED leaving
            ELSE /\ Finish(RunStep(resp))
                 /\ UNCHANGED r_json
    /\ UNCHANGED <<entry, device, info, argToken, num_retries, token, backends, handler,
                   handlerAtCall, original_sigint_handler, execution_id, retries, sent,
                   answers, sleeps, refreshes, interrupted, raised, grResult, result, printed,
                   steps, capacity>>

\* the status test of run, and the return of the execution id to send
RunCheck ==
    /\ pc = "run_check"
    /\ LET o == RunStep([error |-> "none", json |-> r_json])
       IN  IF o.kind = "returned"
            THEN /\ execution_id' = o.value
                 /\ pc' = "get_result"
                 /\ UNCHANGED leaving
            ELSE /\ Finish(o)
                 /\ UNCHANGED execution_id
    /\ UNCHANGED <<entry, device, info, argToken, num_retries, token, backends, handler,
                   handlerAtCall, original_sigint_handler, retries, r_json, sent, answers,
                   sleeps, refreshes, interrupted, raised, grResult, result, printed, steps,
                   capacity>>

\* the outcome of the body reaches the except clauses of send: a caught exception
\* has its header printed, anything else reaches the caller
Leave ==
    /\ pc = "leave"
    /\ IF CallerSees(entry, leaving) = ReturnedNone
        THEN /\ printed' = PrintedAfter(entry, leaving, printed)
             /\ pc' = "print_err"
             /\ UNCHANGED <<result, raised>>
        ELSE /\ result' = CallerSees(entry, leaving)
             /\ raised' = IF leaving.kind = "raised" THEN leaving.exc ELSE raised
             /\ pc' = "done"
             /\ UNCHANGED printed
    /\ UNCHANGED <<entry, device, info, argToken, num_retries, token, backends, handler,
                   handlerAtCall, original_sigint_handler, execution_id, retries, r_json, sent,
                   answers, sleeps, refreshes, interrupted, leaving, grResult, steps, capacity>>

\* print(err) of the except clause
PrintErr ==
    /\ pc = "print_err"
    /\ printed' = Append(printed, str(leaving.exc))
    /\ pc' = "return_none"
    /\ UNCHANGED <<entry, device, info, argToken, num_retries, token, backends, handler,
                   handlerAtCall, original_sigint_handler, execution_id, retries, r_json, sent,
                   answers, sleeps, refreshes, interrupted, raised, leaving, grResult, result,
                   steps, capacity>>

\* send falls off its except clause: return None
ReturnNone ==
    /\ pc = "return_none"
    /\ result' = CallerSees(entry, leaving)
    /\ raised' = leaving.exc
    /\ pc' = "done"
    /\ UNCHANGED <<entry, device, info, argToken, num_retries, token, backends, handler,
                   handlerAtCall, original_sigint_handler, execution_id, retries, r_json, sent,
                   answers, sleeps, refreshes, interrupted, leaving, grResult, printed, steps,
                   capacity>>

-----------------------------------------------------------------------------
\* get_result.

\* the call of get_result and signal.getsignal
GetResultEnter ==
    /\ pc = "get_result"
    /\ original_sigint_handler' = handler
    /\ pc' = "install"
    /\ steps' = Append(steps, "get_result")
    /\ UNCHANGED <<entry, device, info, argToken, num_retries, token, backends, handler,
                   handlerAtCall, execution_id, retries, r_json, sent, answers, sleeps,
                   refreshes, interrupted, raised, leaving, grResult, result, printed,
                   capacity>>

\* signal.signal inside the try block, and the start of the loop
InstallHandler ==
    /\ pc = "install"
    /\ handler' = InstalledHandler(handler, execution_id)
    /\ retries' = 0
    /\ pc' = "poll"
    /\ UNCHANGED <<entry, device, info, argToken, num_retries, token, backends, handlerAtCall,
                   original_sigint_handler, execution_id, r_json, sent, answers, sleeps,
                   refreshes, interrupted, raised, leaving, grResult, result, printed, steps,
                   capacity>>

\* one more iteration: the request is built and put
PollRequest ==
    /\ pc = "poll"
    /\ LoopContinues(retries, num_retries)
    /\ IF device \in DOMAIN backends
        THEN /\ sent' = Append(sent, PollRequestOf(backends, token, device, execution_id))
             /\ pc' = "poll_wait"
             /\ UNCHANGED leaving
        ELSE /\ ExitGetResult(Raised(Exc("KeyError", "key", device)))
             /\ UNCHANGED sent
    /\ UNCHANGED <<entry, device, info, argToken, num_retries, token, backends, handler,
                   handlerAtCall, original_sigint_handler, execution_id, retries, r_json,
                   answers, sleeps, refreshes, interrupted, raised, grResult, result, printed,
                   steps, capacity>>

\* range(num_retries) is exhausted: the loop ends, and after the finally block
\* RequestTimeoutError is raised
PollExhausted ==
    /\ pc = "poll"
    /\ ~LoopContinues(retries, num_retries)
    /\ ExitGetResult(Raised(Exc("RequestTimeoutError",
                                "Timeout. The ID of your submitted job is", execution_id)))
    /\ UNCHANGED <<entry, device, info, argToken, num_retries, token, backends, handler,
                   handlerAtCall, original_sigint_handler, execution_id, retries, r_json, sent,
                   answers, sleeps, refreshes, interrupted, raised, grResult, result, printed,
                   steps, capacity>>

\* the put of get_result returns with the answer of the server
PollResponse ==
    /\ pc = "poll_wait"
    /\ \E resp \in PollResponses : answers' = Append(answers, resp)
    /\ pc' = "poll_decode"
    /\ UNCHANGED <<entry, device, info, argToken, num_retries, token, backends, handler,
                   handlerAtCall, original_sigint_handler, execution_id, retries, r_json, sent,
                   sleeps, refreshes, interrupted, raised, leaving, grResult, result, printed,
                   steps, capacity>>

\* raise_for_status and req.json() of get_result
PollDecode ==
    /\ pc = "poll_decode"
    /\ LET resp == answers[Len(answers)]
       IN  IF resp.error = "none"
            THEN /\ r_json' = resp.json
                 /\ pc' = "poll_check"
                 /\ UNCHANGED leaving
            ELSE /\ ExitGetResult(PollStep(resp))
                 /\ UNCHANGED r_json
    /\ UNCHANGED <<entry, device, info, argToken, num_retries, token, backends, handler,
                   handlerAtCall, original_sigint_handler, execution_id, retries, sent,
                   answers, sleeps, refreshes, interrupted, raised, grResult, result, printed,
                   steps, capacity>>

\* the tests of the decoded response, up to time.sleep
PollCheck ==
    /\ pc = "poll_check"
    /\ LET o == PollStep([error |-> "none", json |-> r_json])
       IN  IF o.kind = "continue"
            THEN pc' = "sleep" /\ UNCHANGED leaving
            ELSE ExitGetResult(o)
    /\ UNCHANGED <<entry, device, info, argToken, num_retries, token, backends, handler,
                   handlerAtCall, original_sigint_handler, execution_id, retries, r_json, sent,
                   answers, sleeps, refreshes, interrupted, raised, grResult, result, printed,
                   steps, capacity>>

\* time.sleep returns
SleepDone ==
    /\ pc = "sleep"
    /\ sleeps' = sleeps + 1
    /\ pc' = "recheck"
    /\ UNCHANGED <<entry, device, info, argToken, num_retries, token, backends, handler,
                   handlerAtCall, original_sigint_handler, execution_id, retries, r_json, sent,
                   answers, refreshes, interrupted, raised, leaving, grResult, result, printed,
                   steps, capacity>>

\* the test of the liveness re-check and, when it is due, the refresh; without
\* it, the next value of retries
Recheck ==
    /\ pc = "recheck"
    /\ IF RecheckDue(backends, device, retries)
        THEN /\ backends' = RefreshedCatalog(backends)
             /\ refreshes' = Append(refreshes, retries)
             /\ pc' = "recheck_online"
             /\ UNCHANGED retries
        ELSE /\ retries' = retries + 1
             /\ pc' = "poll"
             /\ UNCHANGED <<backends, refreshes>>
    /\ UNCHANGED <<entry, device, info, argToken, num_retries, token, handler, handlerAtCall,
                   original_sigint_handler, execution_id, r_json, sent, answers, sleeps,
                   interrupted, raised, leaving, grResult, result, printed, steps, capacity>>

\* the online test after the refresh; the next value of retries
RecheckOnline ==
    /\ pc = "recheck_online"
    /\ IF ~is_online(backends, device)
        THEN /\ ExitGetResult(Raised(Exc("DeviceOfflineError",
                   "Device went offline. The ID of your submitted job is", execution_id)))
             /\ UNCHANGED retries
        ELSE /\ retries' = retries + 1
             /\ pc' = "poll"
             /\ UNCHANGED leaving
    /\ UNCHANGED <<entry, device, info, argToken, num_retries, token, backends, handler,
                   handlerAtCall, original_sigint_handler, execution_id, r_json, sent, answers,
                   sleeps, refreshes, interrupted, raised, grResult, result, printed, steps,
                   capacity>>

\* the finally block: the handler is restored when the original one is not None
Finally ==
    /\ pc = "finally"
    /\ handler' = FinallyHandler(original_sigint_handler, handler)
    /\ pc' = "get_result_exit"
    /\ UNCHANGED <<entry, device, info, argToken, num_retries, token, backends, handlerAtCall,
                   original_sigint_handler, execution_id, retries, r_json, sent, answers,
                   sleeps, refreshes, interrupted, raised, leaving, grResult, result, printed,
                   steps, capacity>>

\* after the finally block: the return or the exception of the try block goes
\* on, or the loop has ended and RequestTimeoutError is raised
GetResultExit ==
    /\ pc = "get_result_exit"
    /\ LeaveGetResult(leaving)
    /\ UNCHANGED <<entry, device, info, argToken, num_retries, token, backends, handler,
                   handlerAtCall, original_sigint_handler, execution_id, retries, r_json, sent,
                   answers, sleeps, refreshes, interrupted, printed, steps, capacity>>

-----------------------------------------------------------------------------
\* SIGINT.

\* the positions inside the try block of get_result, after signal.signal
InTry == {"poll", "poll_wait", "poll_decode", "poll_check", "sleep", "recheck",
          "recheck_online"}

\* the positions of get_result before signal.signal and after the finally block
AroundTry == {"install", "get_result_exit"}

\* a SIGINT arrives inside the try block of get_result: in the put, in
\* time.sleep, or between two statements of the loop
Interrupt ==
    /\ pc \in InTry
    /\ \E e \in SigintRaises(handler) :
        IF e = NoException
            THEN UNCHANGED <<pc, leaving, interrupted>>
            ELSE interrupted' = TRUE /\ ExitGetResult(Raised(e))
    /\ UNCHANGED <<entry, device, info, argToken, num_retries, token, backends, handler,
                   handlerAtCall, original_sigint_handler, execution_id, retries, r_json, sent,
                   answers, sleeps, refreshes, raised, grResult, result, printed, steps,
                   capacity>>

\* a SIGINT arrives in the finally block before the handler is restored: what
\* it raises replaces the outcome of the try block and get_result is left
InterruptFinally ==
    /\ pc = "finally"
    /\ \E e \in SigintRaises(handler) :
        IF e = NoException
            THEN UNCHANGED <<pc, grResult, leaving, result, raised, interrupted>>
            ELSE interrupted' = TRUE /\ LeaveGetResult(Raised(e))
    /\ UNCHANGED <<entry, device, info, argToken, num_retries, token, backends, handler,
                   handlerAtCall, original_sigint_handler, execution_id, retries, r_json, sent,
                   answers, sleeps, refreshes, printed, steps, capacity>>

\* a SIGINT arrives in get_result before the handler is installed or after the
\* finally block: what the handler in effect raises leaves get_result
InterruptAroundTry ==
    /\ pc \in AroundTry
    /\ \E e \in SigintRaises(handler) :
        IF e = NoException
            THEN UNCHANGED <<pc, grResult, leaving, result, raised>>
            ELSE LeaveGetResult(Raised(e))
    /\ UNCHANGED <<entry, device, info, argToken, num_retries, token, backends, handler,
                   handlerAtCall, original_sigint_handler, execution_id, retries, r_json, sent,
                   answers, sleeps, refreshes, interrupted, printed, steps, capacity>>

\* a SIGINT arrives while the operation is outside get_result: at the prompt of
\* getpass, in the put of run, between two statements of send, in an except
\* clause or at the return
InterruptOutside ==
    /\ pc \notin InTry \cup AroundTry \cup {"finally", "done"}
    /\ \E e \in SigintRaises(handler) :
        IF e = NoException
            THEN UNCHANGED <<pc, leaving>>
            ELSE Finish(Raised(e))
    /\ UNCHANGED <<entry, device, info, argToken, num_retries, token, backends, handler,
                   handlerAtCall, original_sigint_handler, execution_id, retries, r_json, sent,
                   answers, sleeps, refreshes, interrupted, raised, grResult, result, printed,
                   steps, capacity>>

Next ==
    \/ NewSession
    \/ Authenticate
    \/ GetpassReturns
    \/ StoreToken
    \/ UpdateDevicesList
    \/ CheckOnline
    \/ PrintOffline
    \/ RaiseOffline
    \/ CheckCapacity
    \/ PrintTooSmall
    \/ RaiseTooSmall
    \/ Run
    \/ RunPut
    \/ RunResponse
    \/ RunDecode
    \/ RunCheck
    \/ Leave
    \/ PrintErr
    \/ ReturnNone
    \/ GetResultEnter
    \/ InstallHandler
    \/ PollRequest
    \/ PollExhausted
    \/ PollResponse
    \/ PollDecode
    \/ PollCheck
    \/ SleepDone
    \/ Recheck
    \/ RecheckOnline
    \/ Finally
    \/ GetResultExit
    \/ Interrupt
    \/ InterruptFinally
    \/ InterruptAroundTry
    \/ InterruptOutside

Spec == Init /\ [][Next]_vars

\* the same operations, a direct caller of get_result possibly holding a session
\* whose catalog it edited by hand
SpecHandEdited == InitHandEdited /\ [][Next]_vars

\* every blocking call (put, time.sleep, the prompt) returns or is interrupted
FairSpec == Spec /\ WF_vars(Next)

-----------------------------------------------------------------------------
\* Vocabulary of the properties.

IsPoll(req) == "id" \in DOMAIN req.data

PollsSent == Cardinality({i \in 1 .. Len(sent) : IsPoll(sent[i])})

SubmitsSent == Len(sent) - PollsSent

SubmitAnswers == IF SubmitsSent >= 1 /\ Len(answers) >= 1 THEN 1 ELSE 0

PollAnswers == Len(answers) - SubmitAnswers

PollAnswer(i) == answers[SubmitAnswers + i]

LastAnswer == answers[Len(answers)]

IsRunning(a) == a.error = "none" /\ a.json = [status |-> "running"]

HasStatus(a, st) == a.error = "none" /\ "status" \in DOMAIN a.json /\ a.json.status = st

HasSamples(a) == a.error = "none" /\ "samples" \in DOMAIN a.json

HasNoStatus(a) == a.error = "none" /\ "status" \notin DOMAIN a.json

\* number of multiples of RecheckPeriod among 0 .. n-1
MultiplesBelow(n) == (n + RecheckPeriod - 1) \div RecheckPeriod

TimeoutError == Exc("RequestTimeoutError", "Timeout. The ID of your submitted job is", execution_id)

OfflineError ==
    Exc("DeviceOfflineError", "Device went offline. The ID of your submitted job is", execution_id)

InterruptError == Exc("Exception", "Interrupted. The ID of your submitted job is", execution_id)

GetResultEnded == pc = "done" /\ grResult.kind # "pending"

\* the delivery of a SIGINT raised an exception in the operation: inside the
\* poll loop, or outside it through the handler then in effect
RaisedBySigint ==
    \/ interrupted
    \/ raised.type \in {"KeyboardInterrupt", "RuntimeError"}
    \/ raised = InterruptError

\* the operation is over and no SIGINT cut it short
EndedUninterrupted == pc = "done" /\ ~RaisedBySigint

\* the try block of get_result has been left
LeftLoop == pc \in {"finally", "get_result_exit", "leave", "print_err", "return_none", "done"}

-----------------------------------------------------------------------------
\* C1: for a device of the catalog and without interrupt, when the server
\* answers "running" to the first N-1 status requests and "finished" with
\* samples s to request N, get_result returns exactly s and N <= num_retries;
\* when it answers "running" to every request, get_result has issued exactly
\* num_retries requests and raises RequestTimeoutError carrying the execution id
\* (so with num_retries < N the outcome is the timeout).
C1_ScriptedPoll ==
    (GetResultEnded /\ EndedUninterrupted /\ device \in DOMAIN backends)
    => LET k == SubmitAnswers
           total == Len(answers) - k
           AllRunning(m) == \A i \in 1 .. m : IsRunning(answers[k + i])
       IN  /\ \A n \in 1 .. total :
                ( /\ HasStatus(answers[k + n], "finished") /\ HasSamples(answers[k + n])
                  /\ AllRunning(n - 1) )
                => /\ n = total /\ PollsSent = n
                   /\ n <= num_retries
                   /\ grResult = Returned(answers[k + n].json.samples)
                   /\ result = grResult
           /\ AllRunning(total)
                => /\ total = num_retries /\ PollsSent = num_retries
                   /\ grResult = Raised(TimeoutError)

C1_Witness ==
    /\ GetResultEnded /\ EndedUninterrupted
    /\ num_retries = LongRetries /\ PollAnswers = LongRetries
    /\ HasStatus(LastAnswer, "finished")
    /\ grResult.kind = "returned"

\* C2: after get_result has exited, the SIGINT handler in effect is the one
\* that was in effect before the call, whatever that handler was.
C2_HandlerRestored == GetResultEnded => handler = handlerAtCall

\* C3 as stated: DeviceOfflineError is raised at attempt 60 and at no earlier
\* attempt.
C3_OfflineAtAttempt60 ==
    (grResult.kind = "raised" /\ grResult.exc.type = "DeviceOfflineError")
    => PollsSent = RecheckPeriod /\ sleeps = RecheckPeriod

\* C3 amended: the liveness re-check of get_result runs after the sleep of
\* exactly the attempts whose zero-based index is a multiple of 60 (attempts 1,
\* 61, ...); when the refresh drops the device, DeviceOfflineError carrying the
\* execution id is raised at attempt 1, after its sleep, and at no other attempt.
C3_RecheckOnMultiplesOf60 ==
    /\ (~interrupted /\ pc # "recheck") => Len(refreshes) = MultiplesBelow(sleeps)
    /\ pc = "recheck" => Len(refreshes) = MultiplesBelow(retries)
    /\ \A i \in 1 .. Len(refreshes) : refreshes[i] = (i - 1) * RecheckPeriod
    /\ (grResult.kind = "raised" /\ grResult.exc.type = "DeviceOfflineError")
        => /\ PollsSent = 1 /\ sleeps = 1 /\ retries = 0
           /\ IsRunning(LastAnswer)
           /\ grResult.exc = OfflineError
    /\ (sleeps >= 1 /\ device \notin DOMAIN update_devices_list)
        => /\ pc \in {"recheck", "recheck_online"} \/ LeftLoop
           /\ EndedUninterrupted => grResult = Raised(OfflineError)

C3_Witness ==
    /\ pc = "done" /\ grResult = Raised(OfflineError)
    /\ PollsSent = 1 /\ num_retries = LongRetries

\* a poll response with an unexpected status and no samples was the last answer
C4_UnexpectedStatus == PollAnswers >= 1 /\ LastAnswer.error = "none"
                        /\ "status" \in DOMAIN LastAnswer.json
                        /\ LastAnswer.json.status \notin {"running", "finished"}
                        /\ "samples" \notin DOMAIN LastAnswer.json

\* C4: a poll response whose status is neither "running" nor "finished" and
\* that has no samples field ends get_result with the generic error carrying
\* that status; no sleep, no catalog refresh and no request follows it.
C4_UnexpectedStatusEndsPolling ==
    /\ [](C4_UnexpectedStatus
            => /\ pc \in {"poll_decode", "poll_check"} \/ LeftLoop
               /\ EndedUninterrupted
                    => /\ grResult = Raised(Exc("Exception", "Error while running the code",
                                                LastAnswer.json.status))
                       /\ result = grResult
               /\ PollsSent = PollAnswers
               /\ sleeps = PollAnswers - 1)
    /\ [][C4_UnexpectedStatus
            => /\ sent' = sent /\ sleeps' = sleeps
               /\ refreshes' = refreshes /\ backends' = backends]_vars

C4_Witness ==
    /\ pc = "done" /\ PollAnswers = 2
    /\ HasStatus(LastAnswer, "queued") /\ ~HasSamples(LastAnswer)
    /\ grResult.kind = "raised"

\* C5 as stated: every poll response that has status "finished" or a samples
\* field makes get_result return that response's samples.
C5_FinishedOrSamplesReturns ==
    (PollAnswers >= 1 /\ (HasStatus(LastAnswer, "finished") \/ HasSamples(LastAnswer))
        /\ EndedUninterrupted)
    => /\ grResult.kind = "returned"
       /\ HasSamples(LastAnswer) => grResult.value = LastAnswer.json.samples

\* C5 amended: every poll response that has a status field (of any value) and
\* a samples field makes get_result return that response's samples at once; a
\* response with samples but no status, or with status "finished" but no
\* samples, ends get_result with the KeyError of the missing field; in both
\* cases no sleep and no request follows the response.
C5_StatusAndSamplesReturn ==
    PollAnswers >= 1
    => /\ (HasSamples(LastAnswer) /\ ~HasNoStatus(LastAnswer))
            => /\ pc \in {"poll_decode", "poll_check"} \/ LeftLoop
               /\ EndedUninterrupted
                    => grResult = Returned(LastAnswer.json.samples) /\ result = grResult
               /\ PollsSent = PollAnswers /\ sleeps = PollAnswers - 1
       /\ (HasSamples(LastAnswer) /\ HasNoStatus(LastAnswer))
            => /\ pc \in {"poll_decode", "poll_check"} \/ LeftLoop
               /\ EndedUninterrupted => grResult = Raised(Exc("KeyError", "key", "status"))
               /\ PollsSent = PollAnswers /\ sleeps = PollAnswers - 1
       /\ (HasStatus(LastAnswer, "finished") /\ ~HasSamples(LastAnswer))
            => /\ pc \in {"poll_decode", "poll_check"} \/ LeftLoop
               /\ EndedUninterrupted => grResult = Raised(Exc("KeyError", "key", "samples"))
               /\ PollsSent = PollAnswers /\ sleeps = PollAnswers - 1

C5_Witness ==
    /\ pc = "done" /\ PollAnswers = 2
    /\ HasStatus(LastAnswer, "running") /\ HasSamples(LastAnswer)
    /\ grResult.kind = "returned"

\* C6: when an HTTPError, another RequestException or a KeyError arises in
\* send, on the submit request or on a poll request, send prints the report of
\* that kind and returns None.
C6_SendReportsAndReturnsNone ==
    (entry = "send" /\ raised.type \in {"HTTPError", "RequestException", "KeyError"})
    => /\ pc = "done"
       /\ result.kind = "returnedNone"
       /\ Len(printed) >= 2
       /\ printed[Len(printed)] = str(raised)
       /\ printed[Len(printed) - 1] =
            CASE raised.type = "HTTPError" -> "- There was an error running your code:"
              [] raised.type = "RequestException" -> "- Looks like something is wrong with server:"
              [] raised.type = "KeyError" -> "- Failed to parse response:"

C6_Witness ==
    /\ entry = "send" /\ raised.type = "KeyError"
    /\ PollAnswers = 2 /\ result.kind = "returnedNone"

\* C7: when the decoded submit response has a status other than "queued" (or
\* none), run raises and yields no execution id, and send issues no poll request.
C7_NotQueuedNoPoll ==
    (entry = "send" /\ Len(answers) >= 1 /\ answers[1].error = "none"
        /\ ~HasStatus(answers[1], "queued"))
    => /\ pc \in {"run_decode", "run_check", "leave", "print_err", "return_none", "done"}
       /\ execution_id = "None"
       /\ grResult = Pending
       /\ Len(sent) = 1 /\ PollsSent = 0
       /\ EndedUninterrupted
            => IF HasNoStatus(answers[1])
                THEN raised = Exc("KeyError", "key", "status") /\ result.kind = "returnedNone"
                ELSE /\ raised = Exc("Exception", "Error in sending the code online", "")
                     /\ result = Raised(raised)

C7_Witness ==
    /\ entry = "send" /\ pc = "done" /\ Len(answers) = 1
    /\ HasStatus(answers[1], "error") /\ "id" \in DOMAIN answers[1].json
    /\ result.kind = "raised"

\* what send has printed before its first check
TokenPrinted ==
    IF entry = "send" /\ argToken # "None" THEN <<"user API token: " \o argToken>> ELSE <<>>

\* C8: in send, once the capacity check has run with info.nq greater than the
\* device's nq, DeviceTooSmall has been raised and no request has been sent;
\* DeviceTooSmall is raised in no other case.
C8_TooSmallBeforeSubmit ==
    /\ (entry = "send" /\ capacity # Unset /\ info.nq > backends[device].nq)
        => /\ pc \in {"too_small_print", "too_small_raise", "leave", "done"}
           /\ EndedUninterrupted
                => /\ raised = Exc("DeviceTooSmall", "Device is too small.", "")
                   /\ result = Raised(raised)
                   /\ printed = TokenPrinted \o <<"The device is too small">>
           /\ result.kind # "returned"
           /\ sent = <<>> /\ answers = <<>>
    /\ (entry = "send" /\ device \in DOMAIN update_devices_list
          /\ info.nq > update_devices_list[device].nq)
        => sent = <<>> /\ answers = <<>> /\ result.kind # "returned"
    /\ raised.type = "DeviceTooSmall"
        => entry = "send" /\ info.nq > backends[device].nq

C8_Witness ==
    /\ entry = "send" /\ pc = "done" /\ device = "aqt_device" /\ info.nq = 5
    /\ raised.type = "DeviceTooSmall" /\ sent = <<>>

\* C9: a DeviceOfflineError, DeviceTooSmall or RequestTimeoutError that arises
\* in send reaches the caller as that error, and send returns None only after
\* an HTTPError, another RequestException or a KeyError.
C9_DistinctErrorsPropagate ==
    entry = "send"
    => /\ raised.type \in BackendErrors => pc = "done" /\ result = Raised(raised)
       /\ result.kind = "returnedNone"
            => raised.type \in {"HTTPError", "RequestException", "KeyError"}

C9_Witness ==
    /\ entry = "send" /\ pc = "done"
    /\ raised.type = "RequestTimeoutError" /\ PollsSent = LongRetries
    /\ result.kind = "raised"

\* a later SIGINT, delivered after the finally block restored the original
\* handler, raised through that handler
C10_LaterSigint ==
    /\ pc \in {"leave", "done"}
    /\ handler = handlerAtCall
    /\ leaving.kind = "raised" /\ leaving.exc.type \in {"KeyboardInterrupt", "RuntimeError"}

\* C10: a SIGINT delivered at any point while get_result is in its poll loop
\* (in a status request, in the sleep or between them) ends the call with the
\* exception that carries the execution id, which reaches the caller; no
\* request is issued at or after the interrupt.
C10_InterruptAborts ==
    /\ [](interrupted
            => \/ pc \in {"finally", "get_result_exit"} /\ leaving = Raised(InterruptError)
               \/ /\ pc \in {"leave", "done"}
                  /\ grResult = Raised(InterruptError)
                  /\ leaving = grResult
                  /\ pc = "done" => result = grResult
               \/ C10_LaterSigint)
    /\ [][interrupted'
            => sent' = sent /\ sleeps' = sleeps /\ refreshes' = refreshes]_vars

C10_Witness ==
    /\ interrupted /\ entry = "send" /\ pc = "done"
    /\ PollsSent = PollAnswers + 1 /\ PollsSent = LongRetries
    /\ result.kind = "raised"

-----------------------------------------------------------------------------
\* the calls of send, in the order of its body
SendOrder ==
    <<"authenticate", "update_devices_list", "is_online", "can_run_experiment", "run",
      "get_result">>

IsPrefix(a, b) == Len(a) <= Len(b) /\ \A i \in 1 .. Len(a) : a[i] = b[i]

\* the token in the session after authenticate: the argument, or the one typed
\* at the prompt when the argument is None
SuppliedToken == IF argToken = "None" THEN PromptedToken ELSE argToken

\* C11: in send the calls occur in the order authenticate, update_devices_list,
\* is_online, can_run_experiment, run, get_result; a request is issued only
\* with the token stored by authenticate, the submit request only after the
\* online and the capacity check have passed, and a poll request only after the
\* submit request was answered with status "queued".
C11_SendOrder ==
    entry = "send"
    => /\ IsPrefix(steps, SendOrder)
       /\ sent # <<>>
            => /\ Len(steps) >= 5
               /\ token = SuppliedToken /\ token # "None"
               /\ \A i \in 1 .. Len(sent) : sent[i].data.access_token = token
               /\ ~IsPoll(sent[1])
               /\ device \in DOMAIN backends
               /\ info.nq <= backends[device].nq
       /\ PollsSent >= 1
            => /\ Len(steps) = 6
               /\ Len(answers) >= 1 /\ HasStatus(answers[1], "queued")
               /\ \A i \in 2 .. Len(sent) : IsPoll(sent[i])

C11_Witness ==
    /\ entry = "send" /\ steps = SendOrder
    /\ PollsSent = 2 /\ Len(answers) = 3 /\ pc = "done"

\* the calls of retrieve, in the order of its body
RetrieveOrder == <<"authenticate", "update_devices_list", "get_result">>

\* C12: retrieve issues no submit request: every request it sends is a status
\* request that carries the job id given by the caller and the supplied token,
\* and it is sent after authenticate and update_devices_list.
C12_RetrieveOnlyPolls ==
    /\ [](entry = "retrieve"
            => /\ IsPrefix(steps, RetrieveOrder)
               /\ \A i \in 1 .. Len(sent) :
                    /\ DOMAIN sent[i].data = {"id", "access_token"}
                    /\ sent[i].data.id = execution_id
                    /\ sent[i].data.access_token = SuppliedToken
               /\ sent # <<>> => steps = RetrieveOrder /\ token = SuppliedToken)
    /\ [][entry = "retrieve" => execution_id' = execution_id]_vars

C12_Witness ==
    /\ entry = "retrieve" /\ argToken = "None" /\ execution_id = "id_b"
    /\ PollsSent = MaxShortRetries /\ Len(sent) = MaxShortRetries /\ pc = "done"

\* C13: for a catalog device can_run_experiment returns (fits, max, needed) with
\* fits true exactly when the job's qubit count is at most the device's, max the
\* catalog value and needed the job value; the call leaves the catalog and the
\* token unchanged and sends no request.
C13_CanRunIsComparison ==
    /\ [](capacity # Unset
            => /\ device \in DOMAIN update_devices_list
               /\ capacity.qmax = update_devices_list[device].nq
               /\ capacity.qneeded = info.nq
               /\ capacity.runnable = (info.nq <= update_devices_list[device].nq)
               /\ ~capacity.runnable
                    => /\ pc \in {"too_small_print", "too_small_raise", "leave", "done"}
                       /\ sent = <<>>)
    /\ [][steps' = Append(steps, "can_run_experiment")
            => /\ capacity' # Unset
               /\ backends' = backends /\ token' = token /\ sent' = sent]_vars

C13_Witness ==
    /\ capacity = [runnable |-> TRUE, qmax |-> 4, qneeded |-> 4]
    /\ device = "aqt_device" /\ sent # <<>>

\* a step that calls update_devices_list
RefreshStep == steps' = Append(steps, "update_devices_list") \/ refreshes' # refreshes

\* C14: is_online(name) is true exactly when name is a key of the current
\* catalog, and update_devices_list overwrites and is idempotent: after a refresh
\* the catalog is the fixed three-device catalog whatever it held before, so a
\* refresh of a refreshed catalog changes nothing.
C14_RefreshOverwrites ==
    /\ [][RefreshStep => backends' = update_devices_list]_vars
    /\ [][RefreshStep /\ backends = update_devices_list => backends' = backends]_vars
    /\ [][~RefreshStep => backends' = backends]_vars
    /\ [][steps' = Append(steps, "is_online")
            => (pc' = "can_run_experiment") = (device \in DOMAIN backends)]_vars
    /\ [][pc = "recheck" /\ interrupted' = interrupted /\ retries % RecheckPeriod = 0
            => (refreshes' # refreshes) = (device \in DOMAIN backends)]_vars
    /\ [][pc = "recheck_online" /\ interrupted' = interrupted
            => (pc' = "poll") = (device \in DOMAIN backends)]_vars

C14_Witness ==
    /\ entry = "get_result" /\ refreshes = <<0, RecheckPeriod>>
    /\ backends = update_devices_list /\ token = "tok_a"

\* C15: the poll handler is installed only while control is inside the poll loop
\* of get_result: in authenticate, the catalog refresh, the capacity check and
\* the submit, and after get_result has exited, the SIGINT handler in effect is
\* not the poll handler.
C15_HandlerScoped ==
    pc \notin InTry \cup {"finally"}
    => handler.fn # "_handle_sigint_during_get_result"

C16_HttpErrorOnPoll == PollAnswers >= 1 /\ LastAnswer.error = "http"

\* C16: an HTTP error on a status request ends get_result at that attempt: the
\* error is raised to the caller of get_result, the request is not retried, and
\* no sleep, no catalog refresh and no status request follows, even when
\* attempts remain.
C16_HttpErrorEndsPolling ==
    /\ [](C16_HttpErrorOnPoll
            => /\ pc \in {"poll_decode", "poll_check"} \/ LeftLoop
               /\ EndedUninterrupted
                    => /\ grResult = Raised(Exc("HTTPError", "bad status code", ""))
                       /\ entry = "get_result" => result = grResult
               /\ PollsSent = PollAnswers
               /\ retries = PollAnswers - 1
               /\ sleeps = PollAnswers - 1)
    /\ [][C16_HttpErrorOnPoll
            => /\ sent' = sent /\ sleeps' = sleeps /\ retries' = retries
               /\ refreshes' = refreshes /\ backends' = backends]_vars

C16_Witness ==
    /\ entry = "get_result" /\ pc = "done" /\ C16_HttpErrorOnPoll
    /\ PollAnswers = 2 /\ num_retries = LongRetries
    /\ result.kind = "raised"

\* C17: in send every status request carries the id of that run's submit
\* response, goes to the url of the submit request, and carries as access_token
\* the token that authenticate stored and that the submit request carried.
C17_PollCarriesSubmitData ==
    entry = "send"
    => \A i \in 2 .. Len(sent) :
        /\ IsPoll(sent[i])
        /\ sent[i].data.id = answers[1].json.id
        /\ sent[i].data.id = execution_id
        /\ sent[i].url = sent[1].url
        /\ sent[i].url = urljoin(_API_URL, update_devices_list[device].url)
        /\ sent[i].data.access_token = sent[1].data.access_token
        /\ sent[i].data.access_token = token
        /\ token = SuppliedToken

C17_Witness ==
    /\ entry = "send" /\ PollsSent = 2 /\ Len(sent) = 3
    /\ answers[1].json.id = "id_b" /\ device = "aqt_simulator_noise"
    /\ argToken = "None"

C18_AllRunning ==
    LET k == SubmitAnswers
    IN  /\ Len(answers) - k = num_retries
        /\ \A i \in 1 .. num_retries : IsRunning(answers[k + i])

C18_StayedOnline == refreshes = <<>> \/ device \in DOMAIN backends

\* C18: get_result always terminates, after at most num_retries status
\* requests, whatever the server answers; it ends with RequestTimeoutError
\* exactly when all num_retries responses were "running" without samples and no
\* re-check found the device offline, having sent exactly num_retries requests;
\* with num_retries = 0 it raises RequestTimeoutError without any request.
C18_TerminatesWithinAttempts ==
    /\ <>(pc = "done")
    /\ [](/\ PollsSent <= num_retries
          /\ grResult = Raised(TimeoutError)
               => /\ pc \in {"leave", "done"} /\ ~interrupted
                  /\ C18_AllRunning /\ C18_StayedOnline
                  /\ PollsSent = num_retries /\ sleeps = num_retries
          /\ (GetResultEnded /\ EndedUninterrupted /\ C18_AllRunning /\ C18_StayedOnline)
               => grResult = Raised(TimeoutError)
          /\ (GetResultEnded /\ EndedUninterrupted /\ num_retries = 0)
               => grResult = Raised(TimeoutError) /\ PollsSent = 0 /\ sleeps = 0)

C18_Witness ==
    /\ entry = "get_result" /\ pc = "done" /\ num_retries = LongRetries
    /\ grResult = Raised(TimeoutError) /\ PollsSent = LongRetries
    /\ refreshes = <<0, RecheckPeriod>>

\* C19: with the static update_devices_list, get_result never raises
\* DeviceOfflineError, for every device, every num_retries and every sequence of
\* server responses: at every re-check the refreshed catalog still holds the
\* device, so the loop goes on.
C19_NeverOffline ==
    /\ ~(grResult.kind = "raised" /\ grResult.exc.type = "DeviceOfflineError")
    /\ leaving # Raised(OfflineError)
    /\ raised # OfflineError
    /\ pc = "recheck_online" => is_online(backends, device)

C19_Witness ==
    /\ entry = "retrieve" /\ pc = "done" /\ device = "aqt_device"
    /\ refreshes = <<0, RecheckPeriod>> /\ sleeps = LongRetries - 1
    /\ grResult.kind = "returned"

\* the device argument is not a key of the catalog the operation works with
C20_UnknownDevice ==
    \/ entry \in {"send", "retrieve"} /\ device \notin DOMAIN update_devices_list
    \/ entry = "get_result" /\ device \notin DOMAIN backends /\ refreshes = <<>>

\* C20: a device name that is not in the catalog never causes an HTTP request:
\* send raises DeviceOfflineError before the capacity check and before any
\* submit, and get_result (also through retrieve) fails with a KeyError on its
\* first attempt before sending a status request, which retrieve propagates to
\* its caller.
C20_UnknownDeviceNoRequest ==
    C20_UnknownDevice
    => /\ sent = <<>> /\ answers = <<>> /\ sleeps = 0
       /\ entry = "send"
            => /\ IsPrefix(steps, SubSeq(SendOrder, 1, 3))
               /\ capacity = Unset /\ grResult = Pending
               /\ Len(steps) = 3
                    => /\ pc \in {"offline_print", "offline_raise", "leave", "done"}
                       /\ EndedUninterrupted
                            => /\ result = Raised(Exc("DeviceOfflineError",
                                                      "Device is offline.", ""))
                               /\ printed = TokenPrinted \o <<"The device is offline">>
       /\ (entry # "send" /\ GetResultEnded /\ EndedUninterrupted)
            => /\ retries = 0
               /\ result = grResult
               /\ num_retries >= 1 => grResult = Raised(Exc("KeyError", "key", device))
               /\ num_retries = 0 => grResult = Raised(TimeoutError)

C20_Witness ==
    /\ entry = "retrieve" /\ device = "custom_device" /\ steps = RetrieveOrder
    /\ result = Raised(Exc("KeyError", "key", "custom_device"))
    /\ num_retries = LongRetries /\ sent = <<>>

====
